---- MODULE Spec2Model ----
(***************************************************************************)
(* Model of the numeric core of microfab-sim: the Deal-Grove oxide         *)
(* thickness solver (src/src/deal_grove.py), the dopant transport          *)
(* profiles, the anneal broadening and the junction depth extraction       *)
(* (src/src/diffusion.py) and the profile combination (src/src/main.py).   *)
(*                                                                         *)
(* Number model.  The code computes in IEEE doubles.  Here a real value v  *)
(* is the integer Round(v * Scale): fixed point with Scale steps per unit. *)
(* Division, square root, exp and erf round to the nearest step, as each   *)
(* float operation rounds to the nearest double; products inside one       *)
(* expression are kept exact.  The range limits of a double (overflow to   *)
(* inf, underflow to 0) are outside the model.                             *)
(***************************************************************************)
EXTENDS Integers, Sequences, FiniteSets

\* Fixed-point steps per unit (the precision of the number model).
Scale == 100

----------------------------------------------------------------------------
\* Arithmetic of the number model

\* n/d rounded to the nearest integer (d > 0), halves upwards.
Round(n, d) == (2 * n + d) \div (2 * d)

Abs(n) == IF n < 0 THEN -n ELSE n

Max(a, b) == IF a >= b THEN a ELSE b

Min(a, b) == IF a <= b THEN a ELSE b

\* a * b and a / b of two fixed-point values.
FMul(a, b) == Round(a * b, Scale)

FDiv(a, b) == Round(a * Scale, b)

RECURSIVE ISqrtBetween(_, _, _)
\* The largest r in lo..hi with r * r <= n, by bisection.
ISqrtBetween(n, lo, hi) ==
  IF lo >= hi THEN lo
  ELSE LET mid == (lo + hi + 1) \div 2
       IN IF mid * mid <= n THEN ISqrtBetween(n, mid, hi)
                            ELSE ISqrtBetween(n, lo, mid - 1)

\* math.sqrt of a value n2 held at scale Scale^2 (an exact product of two
\* fixed-point values): the nearest fixed-point value to its square root.
FSqrt2(n2) ==
  LET r == ISqrtBetween(n2, 0, Min(n2, 46340))
  IN IF n2 - r * r > r THEN r + 1 ELSE r

\* math.sqrt of a fixed-point value.
FSqrt(a) == FSqrt2(a * Scale)

----------------------------------------------------------------------------
\* src/src/deal_grove.py

\* The floor 1e-12 of the linear rate constant, in steps of the model's
\* rate unit (the rate unit is chosen so that 1e-12 nm/min is two steps:
\* the formula is homogeneous in the length unit, so this is a change of
\* unit, and one step is a positive rate below the floor).
Eps == 2

\* A_nm = B / max(B_over_A, 1e-12)
A_nm(B_nm2_per_min, B_over_A_nm_per_min) ==
  FDiv(B_nm2_per_min, Max(B_over_A_nm_per_min, Eps))

\* disc = A*A + 4*B*t, an exact product (scale Scale^2).
disc(B_nm2_per_min, B_over_A_nm_per_min, t_min) ==
  LET A == A_nm(B_nm2_per_min, B_over_A_nm_per_min)
  IN A * A + 4 * B_nm2_per_min * t_min

\* math.sqrt(disc) raises ValueError on a negative argument.
deal_grove_raises(B_nm2_per_min, B_over_A_nm_per_min, t_min) ==
  disc(B_nm2_per_min, B_over_A_nm_per_min, t_min) < 0

\* deal_grove_thickness solving x^2 + (B/A) x - B t = 0 literally, the
\* linear rate constant in the place of A
deal_grove_thickness_linear(B_nm2_per_min, B_over_A_nm_per_min, t_min) ==
  LET R == B_over_A_nm_per_min
  IN Round(-R + FSqrt2(R * R + 4 * B_nm2_per_min * t_min), 2)

\* deal_grove_thickness with +A in place of -A
deal_grove_thickness_plus(B_nm2_per_min, B_over_A_nm_per_min, t_min) ==
  LET A == A_nm(B_nm2_per_min, B_over_A_nm_per_min)
      d == disc(B_nm2_per_min, B_over_A_nm_per_min, t_min)
  IN Round(A + FSqrt2(d), 2)

\* deal_grove_thickness taking the other root of the quadratic
deal_grove_thickness_other_root(B_nm2_per_min, B_over_A_nm_per_min, t_min) ==
  LET A == A_nm(B_nm2_per_min, B_over_A_nm_per_min)
      d == disc(B_nm2_per_min, B_over_A_nm_per_min, t_min)
  IN Round(-A - FSqrt2(d), 2)

\* (-A_nm + math.sqrt(disc)) / 2.0
deal_grove_thickness(B_nm2_per_min, B_over_A_nm_per_min, t_min) ==
  LET A == A_nm(B_nm2_per_min, B_over_A_nm_per_min)
      d == disc(B_nm2_per_min, B_over_A_nm_per_min, t_min)
  IN Round(-A + FSqrt2(d), 2)

----------------------------------------------------------------------------
\* Elementary functions of src/src/diffusion.py

\* math.pi
Pi == Round(314159 * Scale, 100000)

\* erf at 0, 0.25, ..., 3.0 in units of 1/10000 (scipy.special.erf).
ErfTable == <<0, 2763, 5205, 7112, 8427, 9229, 9661, 9867, 9953, 9985, 9996,
              9999, 10000>>

\* erf(z): the table, interpolated linearly; odd; 1 beyond |z| >= 3.
Erf(z) ==
  LET a == Abs(z)
      k == (4 * a) \div Scale
      r == 4 * a - k * Scale
      v == IF a >= 3 * Scale THEN 10000
           ELSE ErfTable[k + 1] + ((ErfTable[k + 2] - ErfTable[k + 1]) * r) \div Scale
      e == Round(v * Scale, 10000)
  IN IF z < 0 THEN -e ELSE e

\* exp(-n) for n = 0, 1, ..., 10 in units of 1/10000; 0 beyond.
ExpNegIntTable == <<10000, 3679, 1353, 498, 183, 67, 25, 9, 3, 1, 0>>

\* exp(-a) for a fixed-point a >= 0: exp(-n) from the table times the series
\* of exp(-f), f the fractional part, both in units of 1/10000.
ExpNeg(a) ==
  LET n  == a \div Scale
      f  == Round((a - n * Scale) * 10000, Scale)
      f2 == Round(f * f, 10000)
      f3 == Round(f2 * f, 10000)
      f4 == Round(f3 * f, 10000)
      f5 == Round(f4 * f, 10000)
      f6 == Round(f5 * f, 10000)
      f7 == Round(f6 * f, 10000)
      ef == 10000 - f + Round(f2, 2) - Round(f3, 6) + Round(f4, 24)
            - Round(f5, 120) + Round(f6, 720) - Round(f7, 5040)
      en == IF n >= 10 THEN 0 ELSE ExpNegIntTable[n + 1]
  IN Round(Round(en * ef, 10000) * Scale, 10000)

RECURSIVE SumSeq(_)
\* sum of a sequence of numbers
SumSeq(s) == IF s = <<>> THEN 0 ELSE Head(s) + SumSeq(Tail(s))

\* micrometres per centimetre: x_cm = x_um * 1e-4
UmPerCm == 10000

x_cm(x_um) == [i \in 1..Len(x_um) |-> Round(x_um[i], UmPerCm)]

----------------------------------------------------------------------------
\* src/src/diffusion.py: the transport profiles

\* Cs * 0.5 * (1 - erf(x_cm / (2*sqrt(D*t_s))))
const_source_erfc(Cs, D, t_s, x_um) ==
  LET xc == x_cm(x_um)
      z  == [i \in 1..Len(x_um) |-> FDiv(xc[i], 2 * FSqrt2(D * t_s))]
  IN [i \in 1..Len(x_um) |-> Round(Cs * (Scale - Erf(z[i])), 2 * Scale)]

\* math.sqrt raises ValueError on D*t_s < 0; Q/denom raises
\* ZeroDivisionError on denom = 0.
limited_source_raises(Q, D, t_s, x_um) ==
  IF D * t_s < 0 THEN "ValueError"
  ELSE IF FSqrt2(FMul(Pi, D) * t_s) = 0 THEN "ZeroDivisionError"
  ELSE "none"

\* (Q/denom) * exp(-(x_cm**2)/(4*D*t_s)), denom = sqrt(pi*D*t_s)
limited_source_gaussian(Q, D, t_s, x_um) ==
  LET xc    == x_cm(x_um)
      denom == FSqrt2(FMul(Pi, D) * t_s)
  IN [i \in 1..Len(x_um) |->
        FMul(FDiv(Q, denom), ExpNeg(Round(xc[i] * xc[i] * Scale, 4 * D * t_s)))]

\* the factor 1e4 of implant_gaussian (to /cm^3)
PerCm3 == 10000

\* dose_cm2/denom raises ZeroDivisionError on denom = sqrt(2*pi)*dR_um = 0.
implant_raises(dose_cm2, Rp_um, dR_um, x_um) ==
  IF FMul(FSqrt(2 * Pi), dR_um) = 0 THEN "ZeroDivisionError" ELSE "none"

\* implant_gaussian without the dose factor (1/denom in place of dose/denom)
implant_gaussian_unit(dose_cm2, Rp_um, dR_um, x_um) ==
  LET denom == FMul(FSqrt(2 * Pi), dR_um)
  IN [i \in 1..Len(x_um) |->
        LET r == FDiv(x_um[i] - Rp_um, dR_um)
        IN FMul(FDiv(Scale, denom), ExpNeg(Round(r * r, 2 * Scale))) * PerCm3]

\* (dose/denom) * exp(-0.5*((x_um - Rp_um)/dR_um)**2) * 1e4
implant_gaussian(dose_cm2, Rp_um, dR_um, x_um) ==
  LET denom == FMul(FSqrt(2 * Pi), dR_um)
  IN [i \in 1..Len(x_um) |->
        LET r == FDiv(x_um[i] - Rp_um, dR_um)
        IN FMul(FDiv(dose_cm2, denom), ExpNeg(Round(r * r, 2 * Scale))) * PerCm3]

----------------------------------------------------------------------------
\* src/src/diffusion.py: anneal broadening

\* dx = x_cm[1] - x_cm[0]
dx_cm(x_um) == x_cm(x_um)[2] - x_cm(x_um)[1]

\* sigma = math.sqrt(2*D*t_s)
sigma_cm(D, t_s) == FSqrt2(2 * D * t_s)

\* kx = (np.arange(L) - L//2) * dx; kern = np.exp(-0.5*(kx/sigma)**2).
\* Entry m + 1 of the sequence is kern[m] of the code, m = 0 .. L-1.
kern_raw(D, t_s, x_um) ==
  LET L     == Len(x_um)
      dx    == dx_cm(x_um)
      sigma == sigma_cm(D, t_s)
  IN [i \in 1..L |->
        LET r == FDiv(((i - 1) - (L \div 2)) * dx, sigma)
        IN ExpNeg(Round(r * r, 2 * Scale))]

\* kern /= (kern.sum()*dx)
kern_norm(D, t_s, x_um) ==
  LET k   == kern_raw(D, t_s, x_um)
      area == FMul(SumSeq(k), dx_cm(x_um))
  IN [i \in 1..Len(x_um) |-> FDiv(k[i], area)]

\* np.real(ifft(fft(Cx)*fft(kern))): the product of the two transforms is the
\* transform of the circular convolution, out[n] = sum_j Cx[j]*kern[(n-j) mod L].
anneal_broaden(Cx, D, t_s, x_um) ==
  LET L == Len(x_um)
      k == kern_norm(D, t_s, x_um)
  IN [i \in 1..L |->
        Round(SumSeq([j \in 1..L |-> Cx[j] * k[((i - j) % L) + 1]]), Scale)]

----------------------------------------------------------------------------
\* src/src/main.py: profile combination

\* The ceiling 1e21 of np.minimum(1e21, NA_bg + B_imp_anneal), in the
\* concentration unit of the combination inputs (1e21/3 per cm^3).
SaturationCeiling == 3

\* combine with a lower clamp at 0 added (np.clip(sum, 0, 1e21))
combine_clip(NA_bg, B_imp_anneal) ==
  [i \in 1..Len(NA_bg) |->
     Max(0, Min(SaturationCeiling, NA_bg[i] + B_imp_anneal[i]))]

\* B = np.minimum(1e21, NA_bg + B_imp_anneal)
combine(NA_bg, B_imp_anneal) ==
  [i \in 1..Len(NA_bg) |-> Min(SaturationCeiling, NA_bg[i] + B_imp_anneal[i])]

----------------------------------------------------------------------------
\* src/src/diffusion.py: junction depth

\* float("nan"), and float(v) of a depth v
NaN == [nan |-> TRUE, value |-> 0]

Float(v) == [nan |-> FALSE, value |-> v]

\* idx = np.where(ND <= NA)[0], as the set of its entries (1-based)
where_le(NA, ND) == {i \in 1..Len(NA) : ND[i] <= NA[i]}

\* idx[0]: np.where lists the indices in increasing order
idx0(NA, ND) == CHOOSE i \in where_le(NA, ND) : \A j \in where_le(NA, ND) : i <= j

\* x_um[idx[0]] raises IndexError when the axis is shorter than the profiles.
junction_raises(x_um, NA, ND) ==
  IF where_le(NA, ND) # {} /\ idx0(NA, ND) > Len(x_um) THEN "IndexError"
  ELSE "none"

\* junction_depth with ND < NA in place of ND <= NA
junction_depth_strict(x_um, NA, ND) ==
  LET idx == {i \in 1..Len(NA) : ND[i] < NA[i]}
  IN IF idx # {} THEN Float(x_um[CHOOSE i \in idx : \A j \in idx : i <= j])
     ELSE NaN

\* junction_depth with 0.0 in place of float("nan")
junction_depth_zero(x_um, NA, ND) ==
  IF where_le(NA, ND) # {} THEN Float(x_um[idx0(NA, ND)]) ELSE Float(0)

\* float(x_um[idx[0]]) if len(idx) else float("nan")
junction_depth(x_um, NA, ND) ==
  IF where_le(NA, ND) # {} THEN Float(x_um[idx0(NA, ND)]) ELSE NaN

----------------------------------------------------------------------------
\* The calls.  Every function is pure: the state is the last call made, its
\* arguments, and what it returned or raised.

VARIABLES
  pc,    \* the function that ran last; "idle" before the first call
  args,  \* its arguments, by parameter name
  ret,   \* its return value (<<>> when it raised)
  exc    \* the exception it raised, "none" when it returned

vars == <<pc, args, ret, exc>>

\* Bounds of the inputs
MaxB == 4

MaxRate == 2

MaxT == 3

MaxLen == 5

MaxALen == 5

MaxJLen == 3

MaxCLen == 2

MaxConc == 2

BValues == {b * Scale : b \in 0..MaxB}

RateValues == {0, 1, Eps, Eps + 1} \cup {r * Scale : r \in 1..MaxRate}

TimeValues == {t * Scale : t \in -1..MaxT}

ConcValues == {c * Scale : c \in 0..MaxConc}

AnnealLevels == {0, Scale, 2 * Scale}

DValues == {0, Scale \div 4}

TsValues == {-Scale, Scale \div 50, Scale \div 2, 2 * Scale}

\* np.linspace-like axis: L samples from x0, `step` micrometres apart
AxisUm(x0, L, step) == [i \in 1..L |-> (x0 + (i - 1) * step) * Scale]

\* spacings of 0.5 cm, 1 cm and 2 cm
StepsUm == {5000, 10000, 20000}

Init ==
  /\ pc = "idle"
  /\ args = <<>>
  /\ ret = <<>>
  /\ exc = "none"

\* main.py:13-17: field = deal_grove_thickness(B, B/A, t).  A later call
\* re-evaluates the same oxide (same rate constants) at another time.
Call_deal_grove_thickness ==
  /\ pc \in {"idle", "deal_grove_thickness"}
  /\ \E B \in BValues, R \in RateValues, t \in TimeValues :
    /\ \/ pc = "idle"
       \/ /\ pc = "deal_grove_thickness"
          /\ args.B_nm2_per_min = B
          /\ args.B_over_A_nm_per_min = R
    /\ pc' = "deal_grove_thickness"
    /\ args' = [B_nm2_per_min |-> B, B_over_A_nm_per_min |-> R, t_min |-> t]
    /\ IF deal_grove_raises(B, R, t)
       THEN ret' = <<>> /\ exc' = "ValueError"
       ELSE ret' = deal_grove_thickness(B, R, t) /\ exc' = "none"

\* main.py:41: P = const_source_erfc(Cs, D, t_s, x_um)
Call_const_source_erfc ==
  /\ pc = "idle"
  /\ \E Cs \in ConcValues, D \in DValues \ {0}, t \in TsValues \ {-Scale},
     L \in 2..MaxLen, step \in StepsUm :
    /\ pc' = "const_source_erfc"
    /\ args' = [Cs |-> Cs, D |-> D, t_s |-> t, x_um |-> AxisUm(0, L, step)]
    /\ ret' = const_source_erfc(Cs, D, t, AxisUm(0, L, step))
    /\ exc' = "none"

\* limited_source_gaussian(Q, D, t_s, x_um)
Call_limited_source_gaussian ==
  /\ pc = "idle"
  /\ \E Q \in ConcValues, D \in DValues, t \in TsValues,
     L \in 2..MaxLen, step \in StepsUm :
    /\ pc' = "limited_source_gaussian"
    /\ args' = [Q |-> Q, D |-> D, t_s |-> t, x_um |-> AxisUm(0, L, step)]
    /\ exc' = limited_source_raises(Q, D, t, AxisUm(0, L, step))
    /\ ret' = IF exc' = "none"
              THEN limited_source_gaussian(Q, D, t, AxisUm(0, L, step))
              ELSE <<>>

\* main.py:44: B_impl = implant_gaussian(dose_cm2, Rp_um, dR_um, x_um)
Call_implant_gaussian ==
  /\ pc = "idle"
  /\ \E dose \in ConcValues, Rp \in {0, 2 * Scale},
     dR \in {0, Scale \div 2, Scale}, L \in 2..MaxLen :
    /\ pc' = "implant_gaussian"
    /\ args' = [dose_cm2 |-> dose, Rp_um |-> Rp, dR_um |-> dR,
                x_um |-> AxisUm(0, L, 1)]
    /\ exc' = implant_raises(dose, Rp, dR, AxisUm(0, L, 1))
    /\ ret' = IF exc' = "none"
              THEN implant_gaussian(dose, Rp, dR, AxisUm(0, L, 1))
              ELSE <<>>

\* main.py:46: B_imp_anneal = anneal_broaden(B_impl, D_B, 30*60, x_um)
Call_anneal_broaden ==
  /\ pc = "idle"
  /\ \E L \in 4..MaxALen, D \in DValues \ {0}, t \in TsValues \ {-Scale},
     step \in StepsUm :
    \E Cx \in [1..L -> AnnealLevels] :
      /\ pc' = "anneal_broaden"
      /\ args' = [Cx |-> Cx, D |-> D, t_s |-> t, x_um |-> AxisUm(0, L, step)]
      /\ ret' = anneal_broaden(Cx, D, t, AxisUm(0, L, step))
      /\ exc' = "none"

\* main.py:47: B = np.minimum(1e21, NA_bg + B_imp_anneal)
Call_combine ==
  /\ pc = "idle"
  /\ \E L \in 0..MaxCLen :
    \E NA_bg \in [1..L -> {-1, 0, 2}], B_imp_anneal \in [1..L -> {-1, 0, 1, 4}] :
      /\ pc' = "combine"
      /\ args' = [NA_bg |-> NA_bg, B_imp_anneal |-> B_imp_anneal]
      /\ ret' = combine(NA_bg, B_imp_anneal)
      /\ exc' = "none"

\* main.py:50: xj = junction_depth(x_um, NA_bg, P).  The axis has one sample
\* per profile sample, or one fewer.
Call_junction_depth ==
  /\ pc = "idle"
  /\ \E L \in 0..MaxJLen, x0 \in {0, 1}, step \in {1, 2} :
    \E NA \in [1..L -> 0..2], ND \in [1..L -> 0..2], Lx \in {L, Max(L - 1, 0)} :
      /\ pc' = "junction_depth"
      /\ args' = [x_um |-> AxisUm(x0, Lx, step), NA |-> NA, ND |-> ND]
      /\ exc' = junction_raises(AxisUm(x0, Lx, step), NA, ND)
      /\ ret' = IF exc' = "none"
                THEN junction_depth(AxisUm(x0, Lx, step), NA, ND)
                ELSE <<>>

Next ==
  \/ Call_deal_grove_thickness
  \/ Call_const_source_erfc
  \/ Call_limited_source_gaussian
  \/ Call_implant_gaussian
  \/ Call_anneal_broaden
  \/ Call_combine
  \/ Call_junction_depth

Spec == Init /\ [][Next]_vars

----------------------------------------------------------------------------
\* Properties of junction_depth

\* some index has ND <= NA
Crosses(NA, ND) == \E i \in 1..Len(NA) : ND[i] <= NA[i]

\* C1: with one depth per profile sample and at least one index where
\* ND <= NA, junction_depth returns x[k] for the smallest such index k:
\* equality counts, every earlier index has ND > NA, and no later crossing
\* is returned.
C1_FirstCrossing ==
  (pc = "junction_depth" /\ Len(args.x_um) = Len(args.NA)) =>
    \A k \in 1..Len(args.NA) :
      (/\ args.ND[k] <= args.NA[k]
       /\ \A j \in 1..(k - 1) : args.ND[j] > args.NA[j])
      => (exc = "none" /\ ~ret.nan /\ ret.value = args.x_um[k])

\* A call whose first crossing is an equality at the second sample, with a
\* strict crossing after it, returned the second depth.
C1_Witness ==
  /\ pc = "junction_depth"
  /\ Len(args.x_um) = 3 /\ Len(args.NA) = 3
  /\ args.ND[1] > args.NA[1]
  /\ args.ND[2] = args.NA[2]
  /\ args.ND[3] < args.NA[3]
  /\ exc = "none" /\ ~ret.nan /\ ret.value = args.x_um[2]

\* C5: without any index where ND <= NA (the empty axis included)
\* junction_depth returns NaN and raises nothing; NaN is returned in that
\* case only, and with one depth per sample a crossing gives a depth.
C5_NoCrossingIsNaN ==
  pc = "junction_depth" =>
    /\ ~Crosses(args.NA, args.ND) => (exc = "none" /\ ret.nan)
    /\ (exc = "none" /\ ret.nan) => ~Crosses(args.NA, args.ND)
    /\ (Crosses(args.NA, args.ND) /\ Len(args.x_um) = Len(args.NA))
         => (exc = "none" /\ ~ret.nan)

\* A call on two profiles of three samples that never cross returned NaN.
C5_Witness ==
  /\ pc = "junction_depth"
  /\ Len(args.NA) = 3 /\ Len(args.x_um) = 3
  /\ \A i \in 1..3 : args.ND[i] > args.NA[i]
  /\ exc = "none" /\ ret.nan

----------------------------------------------------------------------------
\* Properties of the profile combination

\* C7: the combination is the elementwise sum clamped above by the
\* ceiling: the plain sum where it does not exceed the ceiling (a negative
\* sum stays negative), the ceiling elsewhere, and as long as the inputs.
C7_SumClampedAbove ==
  pc = "combine" =>
    /\ Len(ret) = Len(args.NA_bg)
    /\ \A i \in 1..Len(args.NA_bg) :
         LET sum == args.NA_bg[i] + args.B_imp_anneal[i]
         IN /\ ret[i] <= SaturationCeiling
            /\ sum <= SaturationCeiling => ret[i] = sum
            /\ sum > SaturationCeiling => ret[i] = SaturationCeiling

\* A combination with one sample clamped to the ceiling and one negative
\* sum passed through.
C7_Witness ==
  /\ pc = "combine"
  /\ Len(ret) = 2
  /\ args.NA_bg[1] + args.B_imp_anneal[1] > SaturationCeiling
  /\ ret[1] = SaturationCeiling
  /\ args.NA_bg[2] + args.B_imp_anneal[2] < 0
  /\ ret[2] < 0

----------------------------------------------------------------------------
\* Properties of deal_grove_thickness

\* Relative tolerance of the round trip, in percent of the discriminant.
TolPct == 1

\* a call of deal_grove_thickness on non-negative arguments
OxideCall ==
  /\ pc = "deal_grove_thickness"
  /\ args.B_nm2_per_min >= 0
  /\ args.B_over_A_nm_per_min >= 0
  /\ args.t_min >= 0

C9_MonotoneInTime ==
  [][(/\ OxideCall
      /\ exc = "none"
      /\ pc' = "deal_grove_thickness"
      /\ args'.B_nm2_per_min = args.B_nm2_per_min
      /\ args'.B_over_A_nm_per_min = args.B_over_A_nm_per_min
      /\ args'.t_min >= args.t_min)
     => (exc' = "none" /\ ret' >= ret)]_vars

\* An oxide evaluated at the largest time, with a positive thickness that
\* is larger than the square-root term alone would be without growth.
C9_Witness ==
  /\ OxideCall
  /\ args.B_nm2_per_min = MaxB * Scale
  /\ args.B_over_A_nm_per_min = Scale
  /\ args.t_min = MaxT * Scale
  /\ exc = "none"
  /\ ret > Scale

----------------------------------------------------------------------------
\* Degenerate inputs

\* C8: zero rate constant and zero dose give zero and no exception:
\* deal_grove_thickness(0, B_over_A, t) is 0 for non-negative B_over_A and
\* t; implant_gaussian with dose 0 (dR > 0) and limited_source_gaussian
\* with Q = 0 (D*t > 0) are 0 at every depth sample.
C8_DegenerateIsZero ==
  /\ (OxideCall /\ args.B_nm2_per_min = 0) => (exc = "none" /\ ret = 0)
  /\ (pc = "implant_gaussian" /\ args.dose_cm2 = 0 /\ args.dR_um > 0)
       => (/\ exc = "none"
           /\ Len(ret) = Len(args.x_um)
           /\ \A i \in 1..Len(ret) : ret[i] = 0)
  /\ (pc = "limited_source_gaussian" /\ args.Q = 0 /\ args.D * args.t_s > 0)
       => (/\ exc = "none"
           /\ Len(ret) = Len(args.x_um)
           /\ \A i \in 1..Len(ret) : ret[i] = 0)

\* An implant of dose 0 around Rp = 2 um on the longest axis returned the
\* zero profile.
C8_Witness ==
  /\ pc = "implant_gaussian"
  /\ args.dose_cm2 = 0
  /\ args.dR_um > 0
  /\ args.Rp_um = 2 * Scale
  /\ Len(args.x_um) = MaxLen
  /\ exc = "none"
  /\ \A i \in 1..Len(ret) : ret[i] = 0

----------------------------------------------------------------------------
\* Properties of const_source_erfc

\* C3: the constant-source profile equals Cs at every sample of depth 0.
C3_SurfaceEqualsCs ==
  pc = "const_source_erfc" =>
    \A i \in 1..Len(args.x_um) : args.x_um[i] = 0 => ret[i] = args.Cs

----------------------------------------------------------------------------
\* Properties of anneal_broaden

\* a call of anneal_broaden whose domain is at least 6*sigma
AnnealCall ==
  /\ pc = "anneal_broaden"
  /\ x_cm(args.x_um)[Len(args.x_um)] - x_cm(args.x_um)[1]
       >= 6 * sigma_cm(args.D, args.t_s)

\* the input profile is zero except at sample k
PeakAt(Cx, k) == Cx[k] > 0 /\ \A i \in 1..Len(Cx) : i # k => Cx[i] = 0

\* C2: on a domain of at least 6*sigma the output has the mass of the
\* input, sum(out)*dx = sum(in)*dx within 5 percent, whatever dx is.
C2_MassPreserved ==
  AnnealCall =>
    LET dx == dx_cm(args.x_um)
    IN 100 * Abs(SumSeq(ret) * dx - SumSeq(args.Cx) * dx)
         <= 5 * SumSeq(args.Cx) * dx

\* C10: the output is as long as the input; an input concentrated at one
\* sample k away from both edges has its output maximum at the same sample
\* k; a kernel much narrower than the sample spacing (4*sigma <= dx) leaves
\* the profile non-zero at exactly the samples where the input is.
C10_NoTranslation ==
  AnnealCall =>
    /\ Len(ret) = Len(args.Cx)
    /\ \A k \in 2..(Len(args.Cx) - 1) :
         PeakAt(args.Cx, k) =>
           (ret[k] > 0 /\ \A i \in 1..Len(ret) : ret[i] <= ret[k])
    /\ 4 * sigma_cm(args.D, args.t_s) <= dx_cm(args.x_um) =>
         \A i \in 1..Len(ret) : (ret[i] > 0) <=> (args.Cx[i] > 0)

====
